---- MODULE Spec2Model ----
(***************************************************************************)
(* Model of the maintenance scripts of PROJECT_actions:                    *)
(*   scripts/project_monitor.py   (path filter, modification scanner,      *)
(*                                 fingerprint, renderer, markdown merger, *)
(*                                 monitoring pass)                        *)
(*   scripts/readme_generator.py  (marker-delimited README splicing)       *)
(*                                                                         *)
(* Text is a sequence of atoms.  An atom is a TLA+ string that stands for  *)
(* a run of characters the code never looks inside of; every character the *)
(* code searches for on its own ("\n", "#", " ", "/", ".") is an atom of   *)
(* its own.  Positions are 0-based, as in Python.                          *)
(***************************************************************************)
EXTENDS Integers, Sequences, FiniteSets, TLC

VARIABLES
    mode,            \* which program / function is being exercised
    readme_content,  \* readme_generator.main: the README text being rewritten
    rd_orig,         \* the README text main started from
    rd_before,       \* the README text before the last update_readme_section
    rd_k,            \* number of update_readme_section calls main has made
    rd_data,         \* new_data passed to each call made so far
    rd_log,          \* what each call made so far logged ("" for nothing)
    rd_pc,           \* where main is: "start", "update" or "exit"
    rd_plan,         \* the four section bodies main generated
    rd_file,         \* README.md on disk
    rd_exit,         \* what main returned, -1 while it runs
    md_content,      \* update_markdown_file: the text of the project document
    md_before,       \* the document text before the last update_markdown_file
    md_mods,         \* modifications passed to the last update_markdown_file
    md_now,          \* datetime.now() during the last update_markdown_file
    md_ops,          \* number of update_markdown_file calls made
    fn_arg,          \* the arguments of the function being exercised
    fn_ret,          \* the value it returned
    fn_done,         \* whether it has been called
    fs,              \* per project directory: its files in find's order
    docs,            \* per project: its markdown document in OBSIDIAN_DIR
    state_file,      \* STATE_FILE on disk
    pc,              \* project_monitor.main: "idle", "loop", "save", "exit"
    state,           \* main: the previous state load_state returned
    new_state,       \* main: the state being built
    projects,        \* main: the sorted list of project names
    proj_i,          \* main: number of projects processed in this pass
    updated_count,   \* main: number of results with last_updated
    exit_status,     \* what the last main returned (-1 before the first)
    clock,           \* the clock: time.time() and datetime.now()
    scans,           \* per project scanned in this pass: the scan result
    prev_scans,      \* the scans of the pass before
    wrote,           \* the projects whose document this pass wrote
    doc_io,          \* per project processed in this pass: its document I/O
    saved,           \* whether this pass has written STATE_FILE
    prev_saved,      \* whether the pass before wrote STATE_FILE
    state_io,        \* this pass's load_state and save_state calls, in order
    touches,         \* number of file modifications made so far
    faults,          \* number of steps in which an operation failed so far
    faulty           \* the project whose scan and document I/O can fail

readmeVars == <<readme_content, rd_orig, rd_before, rd_k, rd_data, rd_log,
                rd_pc, rd_plan, rd_file, rd_exit>>

mdVars == <<md_content, md_before, md_mods, md_now, md_ops>>

fnVars == <<fn_arg, fn_ret, fn_done>>

diskVars == <<fs, docs, state_file>>

mainVars == <<pc, state, new_state, projects, proj_i, updated_count,
              exit_status, clock>>

histVars == <<scans, prev_scans, wrote, doc_io, saved, prev_saved, state_io,
              touches, faults, faulty>>

monVars == <<diskVars, mainVars, histVars>>

vars == <<mode, readmeVars, mdVars, fnVars, monVars>>

-----------------------------------------------------------------------------
(* Python string primitives on sequences of atoms *)

Min(S) == CHOOSE m \in S : \A n \in S : m <= n

\* s[a:b] for 0 <= a
Slice(s, a, b) == SubSeq(s, a + 1, IF b > Len(s) THEN Len(s) ELSE b)

\* s[a:]
SliceFrom(s, a) == SubSeq(s, a + 1, Len(s))

RECURSIVE Find(_, _, _)
\* s.find(sub, from): least position >= from where sub occurs, else -1
Find(sub, s, from) ==
    IF from + Len(sub) > Len(s) THEN -1
    ELSE IF SubSeq(s, from + 1, from + Len(sub)) = sub THEN from
    ELSE Find(sub, s, from + 1)

\* sub in s
Contains(sub, s) == Find(sub, s, 0) # -1

\* s.endswith(sub)
EndsWith(s, sub) ==
    /\ Len(sub) <= Len(s)
    /\ SubSeq(s, Len(s) - Len(sub) + 1, Len(s)) = sub

RECURSIVE Concat(_)
\* concatenation of a sequence of texts
Concat(ss) == IF ss = <<>> THEN <<>> ELSE Head(ss) \o Concat(Tail(ss))

RECURSIVE Join(_, _)
\* sep.join(ss)
Join(sep, ss) ==
    IF ss = <<>> THEN <<>>
    ELSE IF Len(ss) = 1 THEN Head(ss)
    ELSE Head(ss) \o sep \o Join(sep, Tail(ss))

\* all sequences over A of length 0..n
SeqsUpTo(A, n) == UNION {[1..k -> A] : k \in 0..n}

-----------------------------------------------------------------------------
(* readme_generator.py: update_readme_section *)

start_marker(section_name) ==
    << "<!-- AUTO-GENERATED:" \o section_name \o ":START -->" >>

end_marker(section_name) ==
    << "<!-- AUTO-GENERATED:" \o section_name \o ":END -->" >>

\* TRUE when update_readme_section logs a warning and returns its input
readme_marker_missing(content, section_name) ==
    \/ ~Contains(start_marker(section_name), content)
    \/ ~Contains(end_marker(section_name), content)

\* the log of an update_readme_section that warns about a missing START
\* marker only
update_readme_section_log_start(content, section_name) ==
    IF ~Contains(start_marker(section_name), content)
    THEN "Warning: Start marker for " \o section_name \o " not found"
    ELSE ""

\* lines 196-203: the message update_readme_section logs, "" when none
update_readme_section_log(content, section_name) ==
    IF ~Contains(start_marker(section_name), content)
    THEN "Warning: Start marker for " \o section_name \o " not found"
    ELSE IF ~Contains(end_marker(section_name), content)
    THEN "Warning: End marker for " \o section_name \o " not found"
    ELSE ""

Max(S) == CHOOSE m \in S : \A n \in S : m >= n

\* update_readme_section with the END marker looked up without the section
\* name: the region is closed by the last END marker of any section
update_readme_section_anyend(content, section_name, new_data) ==
    IF ~Contains(start_marker(section_name), content) THEN content
    ELSE IF ~Contains(end_marker(section_name), content) THEN content
    ELSE LET start_pos == Find(start_marker(section_name), content, 0)
                              + Len(start_marker(section_name))
             ends == {i \in 0..(Len(content) - 1) :
                         \E n \in {"BADGES", "STATUS", "METRICS", "ACTIVITY"} :
                             <<content[i + 1]>> = end_marker(n)}
             end_pos   == Max(ends)
         IN  Slice(content, 0, start_pos)
                 \o <<"\n">> \o new_data \o <<"\n">>
                 \o SliceFrom(content, end_pos)

update_readme_section(content, section_name, new_data) ==
    IF ~Contains(start_marker(section_name), content) THEN content
    ELSE IF ~Contains(end_marker(section_name), content) THEN content
    ELSE LET start_pos == Find(start_marker(section_name), content, 0)
                              + Len(start_marker(section_name))
             end_pos   == Find(end_marker(section_name), content, 0)
         IN  Slice(content, 0, start_pos)
                 \o <<"\n">> \o new_data \o <<"\n">>
                 \o SliceFrom(content, end_pos)

\* the sections main rewrites, in the order of its four calls
MainSections == <<"BADGES", "STATUS", "METRICS", "ACTIVITY">>

\* the README prepare_readme_with_markers creates when there is none, lines
\* 222-247; an emoji is written as its name between colons
ReadmeTemplate ==
    <<"# :robot: PROJECT_actions", "\n", "\n",
      "> GitHub Actions automation repository", "\n", "\n">>
    \o start_marker("BADGES") \o <<"\n">> \o end_marker("BADGES")
    \o <<"\n", "\n", "## :bar_chart: Workflow Status", "\n", "\n">>
    \o start_marker("STATUS") \o <<"\n">> \o end_marker("STATUS")
    \o <<"\n", "\n", "## :chart_with_upwards_trend: Metrics", "\n", "\n">>
    \o start_marker("METRICS") \o <<"\n">> \o end_marker("METRICS")
    \o <<"\n", "\n", "## :memo: Recent Activity", "\n", "\n">>
    \o start_marker("ACTIVITY") \o <<"\n">> \o end_marker("ACTIVITY")
    \o <<"\n", "\n", "---", "\n", "\n",
         "*", "This README is automatically updated by GitHub Actions", "*",
         "\n">>

\* lines 258-268: the heading before which the markers of a section are
\* added when its START marker is missing
PrepareAnchors ==
    << [name |-> "BADGES",   search |-> "## :dart: Purpose"],
       [name |-> "STATUS",   search |-> "## :rocket: Active Workflows"],
       [name |-> "METRICS",  search |-> "## :bar_chart: Monitoring Dashboard"],
       [name |-> "ACTIVITY",
        search |-> "## :arrows_counterclockwise: Workflow Status"] >>

\* line 275
marker_block(marker_name) ==
    <<"\n">> \o start_marker(marker_name) \o <<"\n">>
        \o end_marker(marker_name) \o <<"\n", "\n">>

RECURSIVE add_markers(_, _)
\* lines 271-277: each block goes before the first occurrence of its heading
\* in the text as the earlier insertions left it
add_markers(content, markers_to_add) ==
    IF markers_to_add = <<>> THEN content
    ELSE LET m == Head(markers_to_add)
         IN  IF Contains(<<m.search>>, content)
             THEN LET pos == Find(<<m.search>>, content, 0)
                  IN  add_markers(Slice(content, 0, pos)
                                      \o marker_block(m.name)
                                      \o SliceFrom(content, pos),
                                  Tail(markers_to_add))
             ELSE add_markers(content, Tail(markers_to_add))

\* file: [exists, text], README.md; content is the returned text, file the
\* README.md afterwards (only a missing README is written)
prepare_readme_with_markers(file) ==
    IF ~file.exists
    THEN [content |-> ReadmeTemplate,
          file |-> [exists |-> TRUE, text |-> ReadmeTemplate]]
    ELSE LET content == file.text
             Missing(m) == ~Contains(start_marker(m.name), content)
         IN  [content |-> add_markers(content,
                                      SelectSeq(PrepareAnchors, Missing)),
              file |-> file]

\* strftime('%Y-%m-%d %H:%M:%S UTC') of a whole number of seconds
strftime_utc(seconds) == "T" \o ToString(seconds) \o " UTC"

\* the text "*Last automated update:" that opens a footer line
FooterOpen == <<"*", "Last automated update:">>

\* f"*Last automated update: {now}*", lines 321 and 326
footer_line(now) == FooterOpen \o <<" ", strftime_utc(now), "*">>

\* s begins with FooterOpen: the 1-based position of the "*" that ends the
\* match of \*Last automated update:.*?\* there, 0 when a line break or the
\* end of the text comes first ('.' does not match "\n")
footer_close(s) ==
    LET stops == {j \in 3..Len(s) : s[j] \in {"*", "\n"}}
    IN  IF stops = {} THEN 0
        ELSE IF s[Min(stops)] = "*" THEN Min(stops)
        ELSE 0

RECURSIVE re_sub_footer(_, _)
\* re.sub(r'\*Last automated update:.*?\*', repl, s), lines 324-328: every
\* match, left to right, is replaced
re_sub_footer(repl, s) ==
    IF s = <<>> THEN <<>>
    ELSE IF /\ Len(s) >= Len(FooterOpen)
            /\ SubSeq(s, 1, Len(FooterOpen)) = FooterOpen
            /\ footer_close(s) # 0
    THEN repl \o re_sub_footer(repl, SubSeq(s, footer_close(s) + 1, Len(s)))
    ELSE <<Head(s)>> \o re_sub_footer(repl, Tail(s))

\* main, lines 320-331: the footer timestamp
add_footer(content, now) ==
    IF Contains(FooterOpen, content)
    THEN re_sub_footer(footer_line(now), content)
    ELSE content \o <<"\n", "---", "\n", "\n">> \o footer_line(now)

-----------------------------------------------------------------------------
(* Bounds and input sets of the README specification *)

MaxReadmeLen == 4

\* pieces of the READMEs with markers
ReadmeAtoms ==
    { start_marker("BADGES")[1], end_marker("BADGES")[1],
      start_marker("STATUS")[1], end_marker("STATUS")[1],
      "text", "\n" }

\* pieces of the READMEs with footer lines
FooterAtoms ==
    { FooterOpen[1], FooterOpen[2],
      start_marker("BADGES")[1], end_marker("BADGES")[1],
      "text", "\n" }

\* pieces of the READMEs with the headings the markers are added before
HeadingAtoms ==
    { PrepareAnchors[1].search, PrepareAnchors[2].search,
      start_marker("STATUS")[1], "text", "\n" }

ReadmeDocs ==
    SeqsUpTo(ReadmeAtoms, MaxReadmeLen)
        \cup SeqsUpTo(FooterAtoms, MaxReadmeLen)
        \cup SeqsUpTo(HeadingAtoms, MaxReadmeLen - 1)
        \cup {ReadmeTemplate}

\* README.md before main runs
ReadmeFiles ==
    {[exists |-> FALSE, text |-> <<>>]}
        \cup {[exists |-> TRUE, text |-> d] : d \in ReadmeDocs}

\* generated section bodies (badges, tables): marker-free text
ReadmeData == { <<"v1">>, <<"v2", "\n", "v3">> }

\* the bodies of lines 302-311, in the order of MainSections
ReadmePlans == {<<a, b, a, b>> : a, b \in ReadmeData} \ {<<a, a, a, a>> : a \in ReadmeData}

\* datetime.now() when the footer is made
ReadmeClock == {1, 2}

ReadmeIdle ==
    /\ readme_content = <<>>
    /\ rd_orig = <<>>
    /\ rd_before = <<>>
    /\ rd_k = 0
    /\ rd_data = <<>>
    /\ rd_log = <<>>
    /\ rd_pc = "idle"
    /\ rd_plan = <<>>
    /\ rd_file = [exists |-> FALSE, text |-> <<>>]
    /\ rd_exit = -1

\* STATE_FILE on disk: json tells whether its bytes parse as JSON, data is
\* the mapping they hold
NoStateFile == [exists |-> FALSE, json |-> FALSE, data |-> <<>>]

MdIdle ==
    /\ md_content = <<>>
    /\ md_before = <<>>
    /\ md_mods = <<>>
    /\ md_now = 0
    /\ md_ops = 0

FnIdle ==
    /\ fn_arg = <<>>
    /\ fn_ret = <<>>
    /\ fn_done = FALSE

MonIdle ==
    /\ fs = <<>>
    /\ docs = <<>>
    /\ state_file = NoStateFile
    /\ pc = "idle"
    /\ state = <<>>
    /\ new_state = <<>>
    /\ projects = <<>>
    /\ proj_i = 0
    /\ updated_count = 0
    /\ exit_status = -1
    /\ clock = 0
    /\ scans = <<>>
    /\ prev_scans = <<>>
    /\ wrote = {}
    /\ doc_io = <<>>
    /\ saved = FALSE
    /\ prev_saved = FALSE
    /\ state_io = <<>>
    /\ touches = 0
    /\ faults = 0
    /\ faulty = <<>>

InitReadme ==
    /\ mode = "readme"
    /\ MdIdle
    /\ FnIdle
    /\ MonIdle
    /\ rd_file \in ReadmeFiles
    /\ readme_content = <<>>
    /\ rd_orig = <<>>
    /\ rd_before = <<>>
    /\ rd_k = 0
    /\ rd_data = <<>>
    /\ rd_log = <<>>
    /\ rd_pc = "start"
    /\ rd_plan = <<>>
    /\ rd_exit = -1

\* main, lines 283-311: prepare the README, load the workflow data, return 1
\* when there is none and FORCE_UPDATE is not set, else generate the bodies
ReadmeBegin(has_workflow_data, force_update, plan) ==
    /\ mode = "readme"
    /\ rd_pc = "start"
    /\ \E p \in {prepare_readme_with_markers(rd_file)} :
           /\ rd_file' = p.file
           /\ readme_content' = p.content
           /\ rd_orig' = p.content
           /\ rd_before' = p.content
    /\ IF ~has_workflow_data /\ ~force_update
       THEN /\ rd_pc' = "exit"
            /\ rd_exit' = 1
            /\ rd_plan' = <<>>
       ELSE /\ rd_pc' = "update"
            /\ rd_exit' = rd_exit
            /\ rd_plan' = plan
    /\ UNCHANGED <<mode, rd_k, rd_data, rd_log, mdVars, fnVars, monVars>>

\* main, lines 315-318: the next of the four update_readme_section calls
ReadmeUpdate ==
    /\ mode = "readme"
    /\ rd_pc = "update"
    /\ rd_k < Len(MainSections)
    /\ rd_before' = readme_content
    /\ readme_content' =
           update_readme_section(readme_content, MainSections[rd_k + 1],
                                 rd_plan[rd_k + 1])
    /\ rd_k' = rd_k + 1
    /\ rd_data' = Append(rd_data, rd_plan[rd_k + 1])
    /\ rd_log' = Append(rd_log, update_readme_section_log(readme_content,
                                                           MainSections[rd_k + 1]))
    /\ UNCHANGED <<mode, rd_orig, rd_pc, rd_plan, rd_file, rd_exit,
                   mdVars, fnVars, monVars>>

\* main, lines 320-341: the footer timestamp is replaced or appended, the
\* README is written and main returns 0
ReadmeFinish(now) ==
    /\ mode = "readme"
    /\ rd_pc = "update"
    /\ rd_k = Len(MainSections)
    /\ readme_content' = add_footer(readme_content, now)
    /\ rd_file' = [exists |-> TRUE, text |-> add_footer(readme_content, now)]
    /\ rd_pc' = "exit"
    /\ rd_exit' = 0
    /\ UNCHANGED <<mode, rd_orig, rd_before, rd_k, rd_data, rd_log, rd_plan,
                   mdVars, fnVars, monVars>>

NextReadme ==
    \/ \E has_workflow_data, force_update \in BOOLEAN :
       \E plan \in ReadmePlans :
           ReadmeBegin(has_workflow_data, force_update, plan)
    \/ ReadmeUpdate
    \/ \E now \in ReadmeClock : ReadmeFinish(now)

SpecReadme == InitReadme /\ [][NextReadme]_vars

-----------------------------------------------------------------------------
(* project_monitor.py: configuration.  Paths are sequences of characters. *)

\* os.path.expanduser("~/PROJECTS_all")
PROJECTS_DIR == <<"/", "h", "/", "PROJECTS_all">>

EXCLUDE_DIRS ==
    { <<".", "g", "i", "t">>,
      <<"n", "o", "d", "e", "_", "m", "o", "d", "u", "l", "e", "s">>,
      <<"_", "_", "p", "y", "c", "a", "c", "h", "e", "_", "_">>,
      <<".", "n", "e", "x", "t">>,
      <<"d", "i", "s", "t">>,
      <<"b", "u", "i", "l", "d">>,
      <<".", "v", "e", "n", "v">>,
      <<"v", "e", "n", "v">>,
      <<".", "c", "a", "c", "h", "e">>,
      <<".", "p", "y", "t", "e", "s", "t", "_", "c", "a", "c", "h", "e">>,
      <<"c", "o", "v", "e", "r", "a", "g", "e">>,
      <<".", "n", "y", "c", "_", "o", "u", "t", "p", "u", "t">>,
      <<".", "D", "S", "_", "S", "t", "o", "r", "e">> }

EXCLUDE_EXTENSIONS ==
    { <<".", "p", "y", "c">>,
      <<".", "p", "y", "o">>,
      <<".", "p", "y", "d">>,
      <<".", "s", "o">>,
      <<".", "d", "l", "l">>,
      <<".", "d", "y", "l", "i", "b">>,
      <<".", "l", "o", "g">>,
      <<".", "p", "i", "d">>,
      <<".", "l", "o", "c", "k">>,
      <<".", "t", "m", "p">>,
      <<".", "s", "w", "p">>,
      <<".", "s", "w", "o">> }

-----------------------------------------------------------------------------
(* project_monitor.py: should_exclude_path *)

RECURSIVE SplitAt(_, _, _)
\* s.split(sep) for a one-character sep; cur is the segment being read
SplitAt(s, sep, cur) ==
    IF s = <<>> THEN <<cur>>
    ELSE IF Head(s) = sep THEN <<cur>> \o SplitAt(Tail(s), sep, <<>>)
    ELSE SplitAt(Tail(s), sep, Append(cur, Head(s)))

Split(s, sep) == SplitAt(s, sep, <<>>)

\* the number of "/" the path begins with
LeadingSlashes(path) ==
    Min({i \in 0..Len(path) : i = Len(path) \/ path[i + 1] # "/"})

\* pathlib.Path(path).parts on POSIX: the root first (exactly two leading
\* slashes are kept as "//"), then the segments that are neither empty
\* nor "."
path_parts(path) ==
    LET root == IF LeadingSlashes(path) = 0 THEN <<>>
                ELSE IF LeadingSlashes(path) = 2 THEN << <<"/", "/">> >>
                ELSE << <<"/">> >>
    IN  root \o SelectSeq(Split(path, "/"),
                          LAMBDA seg : seg # <<>> /\ seg # <<".">>)

\* s.rfind(c) for a character c
RFindChar(s, c) ==
    LET cands == {i \in 0..(Len(s) - 1) : s[i + 1] = c}
    IN  IF cands = {} THEN -1
        ELSE CHOOSE m \in cands : \A n \in cands : m >= n

\* os.path.splitext(path)[1]: from the last dot of the last segment, unless
\* only dots precede it in that segment
splitext_ext(path) ==
    LET sepIndex == RFindChar(path, "/")
        dotIndex == RFindChar(path, ".")
    IN  IF dotIndex > sepIndex
           /\ \E i \in (sepIndex + 1)..(dotIndex - 1) : path[i + 1] # "."
        THEN SliceFrom(path, dotIndex)
        ELSE <<>>

\* should_exclude_path looking only at the directories of the path, not at
\* its last part
should_exclude_path_dirs_only(path) ==
    LET parts == path_parts(path)
    IN  IF \E i \in 1..(Len(parts) - 1) : parts[i] \in EXCLUDE_DIRS THEN TRUE
        ELSE IF splitext_ext(path) \in EXCLUDE_EXTENSIONS THEN TRUE
        ELSE FALSE

should_exclude_path(path) ==
    LET parts == path_parts(path)
    IN  IF \E i \in 1..Len(parts) : parts[i] \in EXCLUDE_DIRS THEN TRUE
        ELSE IF splitext_ext(path) \in EXCLUDE_EXTENSIONS THEN TRUE
        ELSE FALSE

-----------------------------------------------------------------------------
(* project_monitor.py: records, renderer and markdown merger *)

\* sub-second resolution of st_mtime: timestamps count 1/SubSec seconds
SubSec == 2

\* strftime("%Y-%m-%d %H:%M:%S") of a whole number of seconds
strftime(seconds) == "T" \o ToString(seconds)

\* datetime.fromtimestamp(mtime).strftime(...): the sub-second part is dropped
datetime_of(mtime) == strftime(mtime \div SubSec)

\* f"{num/den:.1f}": one decimal, correctly rounded, ties to even
format_1f(num, den) ==
    LET t    == (10 * num) \div den
        rem  == (10 * num) % den
        up   == (2 * rem > den) \/ (2 * rem = den /\ t % 2 = 1)
        r    == IF up THEN t + 1 ELSE t
    IN  ToString(r \div 10) \o "." \o ToString(r % 10)

\* lines 144-145
size_str(size) ==
    IF size < 1024 * 1024
    THEN format_1f(size, 1024) \o "KB"
    ELSE format_1f(size, 1024 * 1024) \o "MB"

\* lines 147-149
display_path(path) ==
    IF Len(path) > 60
    THEN <<".", ".", ".">> \o SubSeq(path, Len(path) - 57 + 1, Len(path))
    ELSE path

\* line 150; the atom "(bq)" stands for the backquote character
markdown_row(mod) ==
    <<"| ", mod.datetime, " | ", "(bq)">> \o display_path(mod.path)
        \o <<"(bq)", " | ", size_str(mod.size), " |">>

ActivityHeading == <<"#", "#", " ", "Recent Activity">>

format_modifications_for_markdown(modifications, now) ==
    IF modifications = <<>> THEN <<"No recent modifications found.">>
    ELSE Join(<<"\n">>,
              << ActivityHeading \o <<" (Last 20 Edits)", "\n">>,
                 <<"| Date & Time | File | Size |">>,
                 <<"|-------------|------|------|">> >>
              \o [i \in 1..Len(modifications) |-> markdown_row(modifications[i])]
              \o << <<"\n", "*Last scan:", " ", strftime(now), "*">> >>)

ContextHeading == <<"#", "#", " ", "Context">>

\* lines 186-190: the first of "\n## ", "\n# " (in that order) that occurs
\* in remaining after position 0 ends the section
next_heading_end(content, start_idx) ==
    LET remaining == SliceFrom(content, start_idx)
        idx2 == Find(<<"\n", "#", "#", " ">>, remaining, 1)
        idx1 == Find(<<"\n", "#", " ">>, remaining, 1)
    IN  IF idx2 # -1 THEN start_idx + idx2
        ELSE IF idx1 # -1 THEN start_idx + idx1
        ELSE Len(content)

\* lines 192-200: the end of the "*Last scan:" line, when it comes earlier
section_end(content, start_idx) ==
    LET remaining == SliceFrom(content, start_idx)
        end_idx == next_heading_end(content, start_idx)
        last_scan_idx == Find(<<"\n", "*Last scan:">>, remaining, 0)
        line_end == IF last_scan_idx # -1
                    THEN Find(<<"\n">>, remaining, last_scan_idx + 1)
                    ELSE -1
        potential_end == start_idx + line_end + 1
    IN  IF last_scan_idx # -1 /\ line_end # -1 /\ potential_end < end_idx
        THEN potential_end
        ELSE end_idx

\* an update_markdown_file that writes the new section over the
\* "## Context" heading and appends without checking the last character
update_markdown_text_over(content, modifications, now) ==
    LET activity_section == format_modifications_for_markdown(modifications, now)
    IN  IF Contains(ActivityHeading, content)
        THEN LET start_idx == Find(ActivityHeading, content, 0)
                 end_idx == section_end(content, start_idx)
             IN  Slice(content, 0, start_idx) \o activity_section
                     \o (IF end_idx < Len(content)
                         THEN SliceFrom(content, end_idx) ELSE <<>>)
        ELSE IF Contains(ContextHeading, content)
        THEN LET idx == Find(ContextHeading, content, 0)
             IN  Slice(content, 0, idx) \o activity_section
                     \o <<"\n", "\n">>
                     \o SliceFrom(content, idx + Len(ContextHeading))
        ELSE content \o <<"\n">> \o activity_section

\* lines 170-216: the text update_markdown_file writes back for text content
update_markdown_text(content, modifications, now) ==
    LET activity_section == format_modifications_for_markdown(modifications, now)
    IN  IF Contains(ActivityHeading, content)
        THEN LET start_idx == Find(ActivityHeading, content, 0)
                 end_idx == section_end(content, start_idx)
             IN  Slice(content, 0, start_idx) \o activity_section
                     \o (IF end_idx < Len(content)
                         THEN SliceFrom(content, end_idx) ELSE <<>>)
        ELSE IF Contains(ContextHeading, content)
        THEN LET idx == Find(ContextHeading, content, 0)
             IN  Slice(content, 0, idx) \o activity_section
                     \o <<"\n", "\n">> \o SliceFrom(content, idx)
        ELSE (IF EndsWith(content, <<"\n">>) THEN content
              ELSE content \o <<"\n">>)
                 \o <<"\n">> \o activity_section

-----------------------------------------------------------------------------
(* project_monitor.py: get_file_modifications *)

\* lines 105-110: the record built for a file
ModRecord(path, mtime, size) ==
    [path |-> path, timestamp |-> mtime,
     datetime |-> datetime_of(mtime), size |-> size]

\* lines 82-90: find -type f -not -path '*/.*' -not -path '*/<dir>/*' ...
\* prints a file when none of the patterns matches its whole path
find_selects(file_path) ==
    /\ ~Contains(<<"/", ".">>, file_path)
    /\ \A exclude_dir \in EXCLUDE_DIRS :
           ~Contains(<<"/">> \o exclude_dir \o <<"/">>, file_path)

\* os.path.relpath(file_path, project_path) for a file below project_path
relpath(file_path, project_path) == SliceFrom(file_path, Len(project_path) + 1)

\* a stable descending sort taking the items in the opposite order: every
\* item is placed before the items of equal timestamp that came before it
RECURSIVE sort_desc_reversed(_)
sort_desc_reversed(mods) ==
    IF mods = <<>> THEN <<>>
    ELSE LET rest == sort_desc_reversed(SubSeq(mods, 1, Len(mods) - 1))
             x    == mods[Len(mods)]
             n    == Cardinality({i \in 1..Len(rest) :
                                     rest[i].timestamp > x.timestamp})
         IN  SubSeq(rest, 1, n) \o <<x>> \o SubSeq(rest, n + 1, Len(rest))

\* line 115: list.sort(key=timestamp, reverse=True); the sort is stable, so
\* records of equal timestamp keep their order
RECURSIVE sort_desc(_)
sort_desc(mods) ==
    IF mods = <<>> THEN <<>>
    ELSE LET rest == sort_desc(SubSeq(mods, 1, Len(mods) - 1))
             x    == mods[Len(mods)]
             n    == Cardinality({i \in 1..Len(rest) :
                                     rest[i].timestamp >= x.timestamp})
         IN  SubSeq(rest, 1, n) \o <<x>> \o SubSeq(rest, n + 1, Len(rest))

\* a scan that gives up on the first os.stat that raises
get_file_modifications_abort(project_path, limit, files, find, stat_fail) ==
    IF find # "ok" \/ stat_fail # {} THEN <<>>
    ELSE LET full(i) == project_path \o <<"/">> \o files[i].path
             kept    == SelectSeq([i \in 1..Len(files) |-> i],
                                  LAMBDA i : /\ find_selects(full(i))
                                             /\ ~should_exclude_path(full(i)))
             modifications ==
                 [k \in 1..Len(kept) |->
                     ModRecord(relpath(full(kept[k]), project_path),
                               files[kept[k]].mtime, files[kept[k]].size)]
         IN  Slice(sort_desc(modifications), 0, limit)

\* files: what the project directory holds, in the order find enumerates it,
\*        each [path (relative), mtime, size];
\* find:  "ok" (return code 0), "nonzero", "timeout" or "error";
\* stat_fail: the positions in files whose os.stat raises
get_file_modifications(project_path, limit, files, find, stat_fail) ==
    IF find # "ok" THEN <<>>
    ELSE LET full(i) == project_path \o <<"/">> \o files[i].path
             listed  == {i \in 1..Len(files) :
                            /\ find_selects(full(i))
                            /\ ~should_exclude_path(full(i))}
             kept    == SelectSeq([i \in 1..Len(files) |-> i],
                                  LAMBDA i : i \in listed /\ i \notin stat_fail)
             modifications ==
                 [k \in 1..Len(kept) |->
                     ModRecord(relpath(full(kept[k]), project_path),
                               files[kept[k]].mtime, files[kept[k]].size)]
         IN  Slice(sort_desc(modifications), 0, limit)

\* lines 118-121: the message logged for a failed scan, "" when none is
scan_log(find) ==
    IF find = "timeout" THEN "Timeout scanning project"
    ELSE IF find = "error" THEN "Error scanning project"
    ELSE ""

-----------------------------------------------------------------------------
(* project_monitor.py: calculate_project_hash *)

\* repr of a float timestamp
float_repr(mtime) ==
    ToString(mtime \div SubSec) \o "."
        \o ToString(((mtime % SubSec) * 10) \div SubSec)

\* json.dumps(record, sort_keys=True): keys in alphabetical order
json_record(mod) ==
    <<"{", "\"datetime\": ", "\"", mod.datetime, "\"", ", ",
           "\"path\": ", "\"">> \o mod.path \o <<"\"", ", ",
           "\"size\": ", ToString(mod.size), ", ",
           "\"timestamp\": ", float_repr(mod.timestamp), "}">>

json_dumps(mods) ==
    <<"[">> \o Join(<<", ">>, [i \in 1..Len(mods) |-> json_record(mods[i])])
            \o <<"]">>

\* hashlib.md5(s).hexdigest(): the digest is kept symbolic, a non-empty text
\* determined by s (collisions are not modelled)
md5_hexdigest(s) == <<"md5:">> \o s

\* calculate_project_hash hashing the whole list instead of its first five
calculate_project_hash_all(modifications) ==
    IF modifications = <<>> THEN <<>>
    ELSE md5_hexdigest(json_dumps(modifications))

\* calculate_project_hash without the guard for the empty list
calculate_project_hash_noguard(modifications) ==
    md5_hexdigest(json_dumps(Slice(modifications, 0, 5)))

calculate_project_hash(modifications) ==
    IF modifications = <<>> THEN <<>>
    ELSE md5_hexdigest(json_dumps(Slice(modifications, 0, 5)))

-----------------------------------------------------------------------------
(* Bounds and input sets of the markdown specification *)

MaxMdPieces == 4
MaxMdOps == 1

MdPieces ==
    { ActivityHeading, ContextHeading, <<"\n">>, <<"\n", "#", " ", "Title">>,
      <<"*Last scan:", " ", "T0", "*">>, <<"text">> }

MdDocs == {Concat(ps) : ps \in SeqsUpTo(MdPieces, MaxMdPieces)}

MdMods ==
    { << ModRecord(<<"a", ".", "p", "y">>, 7, 256) >>,
      << ModRecord(<<"b", "/", "c", ".", "m", "d">>, 9, 3 * 1024 * 1024),
         ModRecord(<<"a", ".", "p", "y">>, 4, 768) >> }

MdClock == {1, 2}

InitMarkdown ==
    /\ mode = "markdown"
    /\ ReadmeIdle
    /\ FnIdle
    /\ MonIdle
    /\ md_content \in MdDocs
    /\ md_before = md_content
    /\ md_mods = <<>>
    /\ md_now = 0
    /\ md_ops = 0

\* update_markdown_file on an existing, readable and writable document
UpdateMarkdown(modifications, now) ==
    /\ mode = "markdown"
    /\ md_ops < MaxMdOps
    /\ md_before' = md_content
    /\ md_content' = update_markdown_text(md_content, modifications, now)
    /\ md_mods' = modifications
    /\ md_now' = now
    /\ md_ops' = md_ops + 1
    /\ UNCHANGED <<mode, readmeVars, fnVars, monVars>>

NextMarkdown ==
    \E modifications \in MdMods : \E now \in MdClock :
        UpdateMarkdown(modifications, now)

SpecMarkdown == InitMarkdown /\ [][NextMarkdown]_vars

-----------------------------------------------------------------------------
(* Bounds and input sets of the path filter specification *)

MaxPathPieces == 5

PathPieces ==
    { <<"/">>, <<".">>, <<"g", "i", "t">>, <<"l", "o", "g">>,
      <<"b", "u", "i", "l", "d">>, <<"s", "r", "c">>, <<"p", "y">> }

PathInputs == {Concat(ps) : ps \in SeqsUpTo(PathPieces, MaxPathPieces)}

InitPathFilter ==
    /\ mode = "path"
    /\ ReadmeIdle
    /\ MdIdle
    /\ MonIdle
    /\ fn_arg \in PathInputs
    /\ fn_ret = FALSE
    /\ fn_done = FALSE

CallShouldExclude ==
    /\ mode = "path"
    /\ ~fn_done
    /\ fn_ret' = should_exclude_path(fn_arg)
    /\ fn_done' = TRUE
    /\ UNCHANGED <<mode, readmeVars, mdVars, fn_arg, monVars>>

NextPathFilter == CallShouldExclude

SpecPathFilter == InitPathFilter /\ [][NextPathFilter]_vars

-----------------------------------------------------------------------------
(* Bounds and input sets of the fingerprint specification *)

MaxHashLen == 7

HashRecords ==
    { ModRecord(<<"a", ".", "p", "y">>, 7, 256),
      ModRecord(<<"b", ".", "m", "d">>, 4, 768) }

HashInputs == SeqsUpTo(HashRecords, MaxHashLen)

\* two scan results are fingerprinted
InitHash ==
    /\ mode = "hash"
    /\ ReadmeIdle
    /\ MdIdle
    /\ MonIdle
    /\ fn_arg \in HashInputs \X HashInputs
    /\ fn_ret = << <<>>, <<>> >>
    /\ fn_done = FALSE

CallProjectHash ==
    /\ mode = "hash"
    /\ ~fn_done
    /\ fn_ret' = << calculate_project_hash(fn_arg[1]),
                    calculate_project_hash(fn_arg[2]) >>
    /\ fn_done' = TRUE
    /\ UNCHANGED <<mode, readmeVars, mdVars, fn_arg, monVars>>

NextHash == CallProjectHash

SpecHash == InitHash /\ [][NextHash]_vars

-----------------------------------------------------------------------------
(* Bounds and input sets of the scanner specification *)

MaxScanFiles == 3
MaxMtime == 2

\* the files a project directory may hold, in the order find enumerates them
ScanPaths ==
    << <<"a", ".", "p", "y">>, <<".", "e", "n", "v">>, <<"b", ".", "m", "d">>,
       <<"x", ".", "l", "o", "g">>, <<"c", ".", "j", "s">> >>

ScanSize(path) == IF path = <<"a", ".", "p", "y">> THEN 256 ELSE 768

\* directory contents in enumeration order: up to MaxScanFiles of the files,
\* with any mtimes
ScanListings ==
    UNION { {[k \in 1..Cardinality(S) |->
                [path  |-> ScanPaths[CHOOSE i \in S :
                               Cardinality({j \in S : j < i}) = k - 1],
                 mtime |-> m[k]]] : m \in [1..Cardinality(S) -> 1..MaxMtime]}
            : S \in {T \in SUBSET (1..Len(ScanPaths)) :
                         Cardinality(T) <= MaxScanFiles} }

ScanFiles(ls) ==
    [i \in 1..Len(ls) |->
        [path |-> ls[i].path, mtime |-> ls[i].mtime, size |-> ScanSize(ls[i].path)]]

ScanLimits == {1, 2, 20}

\* os.stat raises for no file or for one file of the listing
ScanStatFailures(ls) == {{}} \cup {{i} : i \in 1..Len(ls)}

FindOutcomes == {"ok", "nonzero", "timeout", "error"}

ProjectPath(name) == PROJECTS_DIR \o <<"/">> \o name

ProjectA == <<"P", "R", "O", "J", "E", "C", "T", "a">>

InitScan ==
    /\ mode = "scan"
    /\ ReadmeIdle
    /\ MdIdle
    /\ MonIdle
    /\ \E ls \in ScanListings : \E limit \in ScanLimits :
       \E find \in FindOutcomes : \E stat_fail \in ScanStatFailures(ls) :
           /\ find # "ok" => stat_fail = {}
           /\ fn_arg = [files |-> ScanFiles(ls), limit |-> limit,
                        find |-> find, stat_fail |-> stat_fail]
    /\ fn_ret = <<>>
    /\ fn_done = FALSE

CallGetFileModifications ==
    /\ mode = "scan"
    /\ ~fn_done
    /\ fn_ret' = get_file_modifications(ProjectPath(ProjectA), fn_arg.limit,
                     fn_arg.files, fn_arg.find, fn_arg.stat_fail)
    /\ fn_done' = TRUE
    /\ UNCHANGED <<mode, readmeVars, mdVars, fn_arg, monVars>>

NextScan == CallGetFileModifications

SpecScan == InitScan /\ [][NextScan]_vars

-----------------------------------------------------------------------------
(* project_monitor.py: update_markdown_file, process_project, main *)

\* a mapping (Python dict) with key k set to v
Put(map, k, v) ==
    [x \in (DOMAIN map) \cup {k} |-> IF x = k THEN v ELSE map[x]]

RECURSIVE first_chars(_, _)
\* the first n characters of a text
first_chars(text, n) ==
    IF n <= 0 \/ text = <<>> THEN <<>>
    ELSE IF Len(Head(text)) <= n
    THEN <<Head(text)>> \o first_chars(Tail(text), n - Len(Head(text)))
    ELSE <<SubSeq(Head(text), 1, n)>>

\* doc: [exists, text], the project's markdown file;
\* io:  "ok", "unreadable" (the open or the read of line 166-167 raises),
\*      "unwritable" (the open of line 219 raises) or "write_fails" (the
\*      open of line 219 has truncated the file and the write of line 220
\*      raises after cut characters of the new text have reached the file:
\*      the document is left holding them); the returned ok is the
\*      function's return value
update_markdown_file(doc, io, cut, modifications, t) ==
    IF ~doc.exists THEN [ok |-> FALSE, doc |-> doc]
    ELSE IF io \in {"unreadable", "unwritable"} THEN [ok |-> FALSE, doc |-> doc]
    ELSE IF io = "write_fails"
    THEN [ok  |-> FALSE,
          doc |-> [exists |-> TRUE,
                   text |-> first_chars(update_markdown_text(doc.text,
                                                             modifications, t),
                                        cut)]]
    ELSE [ok  |-> TRUE,
          doc |-> [exists |-> TRUE,
                   text |-> update_markdown_text(doc.text, modifications, t)]]

\* previous_state.get(project_name, {}).get('hash', '')
previous_hash_of(previous_state, project_name) ==
    IF project_name \in DOMAIN previous_state
    THEN previous_state[project_name].hash
    ELSE <<>>

\* process_project that rewrites the document on every pass
process_project_always(project_name, previous_state, modifications, doc, io, cut, t) ==
    IF modifications = <<>>
    THEN [result |-> <<>>, doc |-> doc, wrote |-> FALSE]
    ELSE LET current_hash == calculate_project_hash(modifications)
             u == update_markdown_file(doc, io, cut, modifications, t)
         IN  [result |-> << [hash |-> current_hash, last_checked |-> t,
                             last_updated |-> t,
                             modifications |-> modifications] >>,
              doc |-> u.doc, wrote |-> u.ok]

\* process_project that stores the fingerprint it compared against
process_project_oldhash(project_name, previous_state, modifications, doc, io, cut, t) ==
    IF modifications = <<>>
    THEN [result |-> <<>>, doc |-> doc, wrote |-> FALSE]
    ELSE LET current_hash == calculate_project_hash(modifications)
             previous_hash == previous_hash_of(previous_state, project_name)
         IN  IF current_hash = previous_hash
             THEN [result |-> << [hash |-> current_hash, last_checked |-> t,
                                  modifications |-> modifications] >>,
                   doc |-> doc, wrote |-> FALSE]
             ELSE LET u == update_markdown_file(doc, io, cut, modifications, t)
                  IN  [result |-> << [hash |-> previous_hash, last_checked |-> t,
                                      last_updated |-> t,
                                      modifications |-> modifications] >>,
                       doc |-> u.doc, wrote |-> u.ok]

\* process_project that keeps the stored fingerprint when the document
\* could not be updated, so that the next pass tries again
process_project_retry(project_name, previous_state, modifications, doc, io, cut, t) ==
    IF modifications = <<>>
    THEN [result |-> <<>>, doc |-> doc, wrote |-> FALSE]
    ELSE LET current_hash == calculate_project_hash(modifications)
             previous_hash == previous_hash_of(previous_state, project_name)
         IN  IF current_hash = previous_hash
             THEN [result |-> << [hash |-> current_hash, last_checked |-> t,
                                  modifications |-> modifications] >>,
                   doc |-> doc, wrote |-> FALSE]
             ELSE LET u == update_markdown_file(doc, io, cut, modifications, t)
                  IN  IF u.ok
                      THEN [result |-> << [hash |-> current_hash,
                                           last_checked |-> t,
                                           last_updated |-> t,
                                           modifications |-> modifications] >>,
                            doc |-> u.doc, wrote |-> TRUE]
                      ELSE [result |-> << [hash |-> previous_hash,
                                           last_checked |-> t,
                                           modifications |-> modifications] >>,
                            doc |-> doc, wrote |-> FALSE]

\* process_project that copies the stored last_updated into the entry of a
\* project that has not changed
process_project_carry(project_name, previous_state, modifications, doc, io, cut, t) ==
    IF modifications = <<>>
    THEN [result |-> <<>>, doc |-> doc, wrote |-> FALSE]
    ELSE LET current_hash == calculate_project_hash(modifications)
             previous_hash == previous_hash_of(previous_state, project_name)
         IN  IF current_hash = previous_hash
             THEN [result |-> << IF "last_updated"
                                       \in DOMAIN previous_state[project_name]
                                 THEN [hash |-> current_hash, last_checked |-> t,
                                       last_updated |->
                                           previous_state[project_name].last_updated,
                                       modifications |-> modifications]
                                 ELSE [hash |-> current_hash, last_checked |-> t,
                                       modifications |-> modifications] >>,
                   doc |-> doc, wrote |-> FALSE]
             ELSE LET u == update_markdown_file(doc, io, cut, modifications, t)
                  IN  [result |-> << [hash |-> current_hash, last_checked |-> t,
                                      last_updated |-> t,
                                      modifications |-> modifications] >>,
                       doc |-> u.doc, wrote |-> u.ok]

\* modifications: what get_file_modifications returned for the project;
\* result: <<>> for None, else <<entry>>; doc: the document afterwards;
\* wrote: whether the document was written
process_project(project_name, previous_state, modifications, doc, io, cut, t) ==
    IF modifications = <<>>
    THEN [result |-> <<>>, doc |-> doc, wrote |-> FALSE]
    ELSE LET current_hash == calculate_project_hash(modifications)
             previous_hash == previous_hash_of(previous_state, project_name)
         IN  IF current_hash = previous_hash
             THEN [result |-> << [hash |-> current_hash, last_checked |-> t,
                                  modifications |-> modifications] >>,
                   doc |-> doc, wrote |-> FALSE]
             ELSE LET u == update_markdown_file(doc, io, cut, modifications, t)
                  IN  [result |-> << [hash |-> current_hash, last_checked |-> t,
                                      last_updated |-> t,
                                      modifications |-> modifications] >>,
                       doc |-> u.doc, wrote |-> u.ok]

\* load_state: the mapping in STATE_FILE, {} when there is no file or when
\* json.load raises on it
load_state(file) == IF file.exists /\ file.json THEN file.data ELSE <<>>

\* what load_state logs ("" for nothing)
load_state_log(file) ==
    IF file.exists /\ ~file.json THEN "Error loading state" ELSE ""

\* save_state, lines 52-58: STATE_FILE afterwards.  outcome is "ok",
\* "unwritable" (the open of line 55 raises) or "write_fails" (the open has
\* truncated the file and json.dump raises: the file is left without a
\* complete JSON document); the exception is caught and logged
save_state(file, new, outcome) ==
    IF outcome = "ok" THEN [exists |-> TRUE, json |-> TRUE, data |-> new]
    ELSE IF outcome = "write_fails"
    THEN [exists |-> TRUE, json |-> FALSE, data |-> <<>>]
    ELSE file

\* what save_state logs ("" for nothing)
save_state_log(outcome) ==
    IF outcome = "ok" THEN "" ELSE "Error saving state"

\* characters in ASCII order
CharOrder == <<".", "0", "1", "2", "3", "4", "5", "6", "7", "8", "9", "A", "B", "C", "D", "E", "F", "G", "H", "I", "J", "K", "L", "M", "N", "O", "P", "Q", "R", "S", "T", "U", "V", "W", "X", "Y", "Z", "_", "a", "b", "c", "d", "e", "f", "g", "h", "i", "j", "k", "l", "m", "n", "o", "p", "q", "r", "s", "t", "u", "v", "w", "x", "y", "z">>

Ord(c) == CHOOSE i \in 1..Len(CharOrder) : CharOrder[i] = c

RECURSIVE StrLess(_, _)
\* a < b for Python strings
StrLess(a, b) ==
    IF b = <<>> THEN FALSE
    ELSE IF a = <<>> THEN TRUE
    ELSE IF Head(a) # Head(b) THEN Ord(Head(a)) < Ord(Head(b))
    ELSE StrLess(Tail(a), Tail(b))

RECURSIVE SortNames(_)
\* sorted(names)
SortNames(names) ==
    IF names = {} THEN <<>>
    ELSE LET m == CHOOSE x \in names : \A y \in names \ {x} : StrLess(x, y)
         IN  <<m>> \o SortNames(names \ {m})

\* s.startswith(prefix)
StartsWith(s, prefix) ==
    Len(prefix) <= Len(s) /\ SubSeq(s, 1, Len(prefix)) = prefix

PA == <<"P", "R", "O", "J", "E", "C", "T", "a">>
PB == <<"P", "R", "O", "J", "E", "C", "T", "b">>

\* what os.listdir(PROJECTS_DIR) holds
DirEntries ==
    { [name |-> PB, isdir |-> TRUE],
      [name |-> PA, isdir |-> TRUE],
      [name |-> <<"n", "o", "t", "e", "s">>, isdir |-> TRUE],
      [name |-> <<"P", "R", "O", "J", "E", "C", "T", ".", "t", "x", "t">>, isdir |-> FALSE] }

\* lines 278-281
list_projects(entries) ==
    SortNames({e.name : e \in {d \in entries :
                  StartsWith(d.name, <<"P", "R", "O", "J", "E", "C", "T">>) /\ d.isdir}})

ProjectNames == {PA, PB}

-----------------------------------------------------------------------------
(* Bounds and input sets of the monitor specification *)

MaxPasses == 2
MaxTouches == 1
\* the most characters that reach a document before its write fails
MaxWriteCut == 7
\* the most steps in which the environment makes an operation fail
MaxFaults == 1

\* 1 when the environment makes the scan or the document update fail
Failed(find, stat_fail, io) ==
    IF find # "ok" \/ stat_fail # {} \/ io # "ok" THEN 1 ELSE 0

MonFile(path, mtime) == [path |-> path, mtime |-> mtime, size |-> ScanSize(path)]

MonListings ==
    { << MonFile(<<"a", ".", "p", "y">>, 1) >>,
      << MonFile(<<"a", ".", "p", "y">>, 1), MonFile(<<"b", ".", "m", "d">>, 2),
         MonFile(<<"c", ".", "j", "s">>, 2), MonFile(<<"x", ".", "l", "o", "g">>, 2) >> }

MonDocs ==
    { [exists |-> FALSE, text |-> <<>>],
      [exists |-> TRUE, text |-> <<"text", "\n">>] }

\* the failures the environment can inject into one project's processing
StatFailures(listing) == {{}} \cup {{i} : i \in (1..Len(listing)) \cap {1}}
DocIO == {"ok", "unreadable", "unwritable", "write_fails"}
SaveOutcomes == {"ok", "unwritable", "write_fails"}

InitMonitor ==
    /\ mode = "monitor"
    /\ ReadmeIdle
    /\ MdIdle
    /\ FnIdle
    \* the two projects hold different files
    /\ fs \in {f \in [ProjectNames -> MonListings] :
                  \A p, q \in ProjectNames : p # q => f[p] # f[q]}
    /\ docs \in [ProjectNames -> MonDocs]
    /\ state_file = NoStateFile
    /\ pc = "idle"
    /\ state = <<>>
    /\ new_state = <<>>
    /\ projects = <<>>
    /\ proj_i = 0
    /\ updated_count = 0
    /\ exit_status = -1
    /\ clock = 0
    /\ scans = <<>>
    /\ prev_scans = <<>>
    /\ wrote = {}
    /\ doc_io = <<>>
    /\ saved = FALSE
    /\ prev_saved = FALSE
    /\ state_io = <<>>
    /\ touches = 0
    /\ faults = 0
    /\ faulty \in ProjectNames

\* a main that saves the state it has built when os.listdir raises
MainStart_saves(listdir_ok) ==
    /\ mode = "monitor"
    /\ pc = "idle"
    /\ clock < MaxPasses
    /\ clock' = clock + 1
    /\ state' = load_state(state_file)
    /\ new_state' = <<>>
    /\ updated_count' = 0
    /\ proj_i' = 0
    /\ prev_scans' = scans
    /\ scans' = <<>>
    /\ prev_saved' = saved
    /\ state_io' = << [op |-> "load", at |-> 0] >>
    /\ saved' = FALSE
    /\ wrote' = {}
    /\ doc_io' = <<>>
    /\ IF listdir_ok
       THEN /\ projects' = list_projects(DirEntries)
            /\ pc' = "loop"
            /\ exit_status' = -1
       ELSE /\ projects' = <<>>
            /\ pc' = "exit"
            /\ exit_status' = 1
    /\ state_file' = IF listdir_ok THEN state_file
                     ELSE [exists |-> TRUE, json |-> TRUE, data |-> <<>>]
    /\ faults + (IF listdir_ok THEN 0 ELSE 1) <= MaxFaults
    /\ faults' = faults + (IF listdir_ok THEN 0 ELSE 1)
    /\ UNCHANGED <<mode, readmeVars, mdVars, fnVars, fs, docs, touches, faulty>>

\* main, lines 269-283: load the state, list and sort the projects; a
\* failing os.listdir is the fatal error that makes main return 1
MainStart(listdir_ok) ==
    /\ mode = "monitor"
    /\ pc = "idle"
    /\ clock < MaxPasses
    /\ clock' = clock + 1
    /\ state' = load_state(state_file)
    /\ new_state' = <<>>
    /\ updated_count' = 0
    /\ proj_i' = 0
    /\ prev_scans' = scans
    /\ scans' = <<>>
    /\ prev_saved' = saved
    /\ state_io' = << [op |-> "load", at |-> 0] >>
    /\ saved' = FALSE
    /\ wrote' = {}
    /\ doc_io' = <<>>
    /\ IF listdir_ok
       THEN /\ projects' = list_projects(DirEntries)
            /\ pc' = "loop"
            /\ exit_status' = -1
       ELSE /\ projects' = <<>>
            /\ pc' = "exit"
            /\ exit_status' = 1
    /\ faults + (IF listdir_ok THEN 0 ELSE 1) <= MaxFaults
    /\ faults' = faults + (IF listdir_ok THEN 0 ELSE 1)
    /\ UNCHANGED <<mode, readmeVars, mdVars, fnVars, diskVars, touches, faulty>>

\* a loop in which a project's failed scan or failed document update is
\* fatal: main returns 1 without processing the projects that follow
ProcessNext_abort(find, stat_fail, io, cut) ==
    /\ mode = "monitor"
    /\ pc = "loop"
    /\ proj_i < Len(projects)
    /\ stat_fail \in StatFailures(fs[projects[proj_i + 1]])
    /\ cut \in 0..MaxWriteCut
    /\ io # "write_fails" => cut = 0
    /\ faults + Failed(find, stat_fail, io) <= MaxFaults
    /\ faults' = faults + Failed(find, stat_fail, io)
    /\ find # "ok" => (stat_fail = {} /\ io = "ok")
    /\ stat_fail # {} => io = "ok"
    /\ projects[proj_i + 1] # faulty =>
           (find = "ok" /\ stat_fail = {} /\ io = "ok")
    /\ \E project_name \in {projects[proj_i + 1]} :
       \E modifications \in
               {get_file_modifications(ProjectPath(project_name), 20,
                                       fs[project_name], find, stat_fail)} :
       \E r \in {process_project(project_name, state, modifications,
                                 docs[project_name], io, cut, clock)} :
           /\ docs' = [docs EXCEPT ![project_name] = r.doc]
           /\ new_state' = IF r.result # <<>>
                           THEN Put(new_state, project_name, r.result[1])
                           ELSE new_state
           /\ updated_count' =
                  IF r.result # <<>> /\ "last_updated" \in DOMAIN r.result[1]
                  THEN updated_count + 1 ELSE updated_count
           /\ scans' = Put(scans, project_name, modifications)
           /\ wrote' = IF r.wrote THEN wrote \cup {project_name} ELSE wrote
           /\ doc_io' = Put(doc_io, project_name, io)
           /\ IF r.result = <<>>
                 \/ ("last_updated" \in DOMAIN r.result[1] /\ ~r.wrote)
              THEN pc' = "exit" /\ exit_status' = 1
              ELSE pc' = pc /\ exit_status' = exit_status
    /\ proj_i' = proj_i + 1
    /\ UNCHANGED <<mode, readmeVars, mdVars, fnVars, fs, state_file, state,
                   projects, clock, prev_scans, saved,
                   prev_saved, state_io, touches, faulty>>

\* a loop that saves the state built so far after every project
ProcessNext_saves(find, stat_fail, io, cut) ==
    /\ mode = "monitor"
    /\ pc = "loop"
    /\ proj_i < Len(projects)
    /\ stat_fail \in StatFailures(fs[projects[proj_i + 1]])
    /\ cut \in 0..MaxWriteCut
    /\ io # "write_fails" => cut = 0
    /\ faults + Failed(find, stat_fail, io) <= MaxFaults
    /\ faults' = faults + Failed(find, stat_fail, io)
    /\ find # "ok" => (stat_fail = {} /\ io = "ok")
    /\ stat_fail # {} => io = "ok"    \* one failure at a time
    /\ projects[proj_i + 1] # faulty =>
           (find = "ok" /\ stat_fail = {} /\ io = "ok")
    /\ \E project_name \in {projects[proj_i + 1]} :
       \E modifications \in
               {get_file_modifications(ProjectPath(project_name), 20,
                                       fs[project_name], find, stat_fail)} :
       \E r \in {process_project(project_name, state, modifications,
                                 docs[project_name], io, cut, clock)} :
           /\ docs' = [docs EXCEPT ![project_name] = r.doc]
           /\ new_state' = IF r.result # <<>>
                           THEN Put(new_state, project_name, r.result[1])
                           ELSE new_state
           /\ updated_count' =
                  IF r.result # <<>> /\ "last_updated" \in DOMAIN r.result[1]
                  THEN updated_count + 1 ELSE updated_count
           /\ scans' = Put(scans, project_name, modifications)
           /\ wrote' = IF r.wrote THEN wrote \cup {project_name} ELSE wrote
           /\ doc_io' = Put(doc_io, project_name, io)
           /\ state_file' =
                  [exists |-> TRUE,
                   data   |-> IF r.result # <<>>
                              THEN Put(new_state, project_name, r.result[1])
                              ELSE new_state]
    /\ state_io' = Append(state_io, [op |-> "save", at |-> proj_i + 1])
    /\ proj_i' = proj_i + 1
    /\ UNCHANGED <<mode, readmeVars, mdVars, fnVars, fs, pc, state,
                   projects, exit_status, clock, prev_scans, saved,
                   prev_saved, touches, faulty>>

\* main, lines 287-294: one iteration of the loop over the projects
ProcessNext(find, stat_fail, io, cut) ==
    /\ mode = "monitor"
    /\ pc = "loop"
    /\ proj_i < Len(projects)
    /\ stat_fail \in StatFailures(fs[projects[proj_i + 1]])
    /\ cut \in 0..MaxWriteCut
    /\ io # "write_fails" => cut = 0
    /\ faults + Failed(find, stat_fail, io) <= MaxFaults
    /\ faults' = faults + Failed(find, stat_fail, io)
    /\ find # "ok" => (stat_fail = {} /\ io = "ok")
    /\ stat_fail # {} => io = "ok"    \* one failure at a time
    /\ projects[proj_i + 1] # faulty =>
           (find = "ok" /\ stat_fail = {} /\ io = "ok")
    /\ \E project_name \in {projects[proj_i + 1]} :
       \E modifications \in
               {get_file_modifications(ProjectPath(project_name), 20,
                                       fs[project_name], find, stat_fail)} :
       \E r \in {process_project(project_name, state, modifications,
                                 docs[project_name], io, cut, clock)} :
           /\ docs' = [docs EXCEPT ![project_name] = r.doc]
           /\ new_state' = IF r.result # <<>>
                           THEN Put(new_state, project_name, r.result[1])
                           ELSE new_state
           /\ updated_count' =
                  IF r.result # <<>> /\ "last_updated" \in DOMAIN r.result[1]
                  THEN updated_count + 1 ELSE updated_count
           /\ scans' = Put(scans, project_name, modifications)
           /\ wrote' = IF r.wrote THEN wrote \cup {project_name} ELSE wrote
           /\ doc_io' = Put(doc_io, project_name, io)
    /\ proj_i' = proj_i + 1
    /\ UNCHANGED <<mode, readmeVars, mdVars, fnVars, fs, state_file, pc, state,
                   projects, exit_status, clock, prev_scans, saved,
                   prev_saved, state_io, touches, faulty>>

\* main, lines 296-306: save_state(new_state) and return 0; save_state
\* swallows a failure to write
SaveState(outcome) ==
    /\ mode = "monitor"
    /\ pc = "loop"
    /\ proj_i = Len(projects)
    \* one failure at a time
    /\ outcome # "ok" => \A n \in DOMAIN doc_io : doc_io[n] = "ok"
    /\ state_file' = save_state(state_file, new_state, outcome)
    /\ saved' = (outcome = "ok")
    /\ faults + (IF outcome = "ok" THEN 0 ELSE 1) <= MaxFaults
    /\ faults' = faults + (IF outcome = "ok" THEN 0 ELSE 1)
    /\ state_io' = Append(state_io, [op |-> "save", at |-> proj_i])
    /\ exit_status' = 0
    /\ pc' = "exit"
    /\ UNCHANGED <<mode, readmeVars, mdVars, fnVars, fs, docs, state, new_state,
                   projects, proj_i, updated_count, clock, scans, prev_scans,
                   wrote, doc_io, prev_saved, touches, faulty>>

\* the process ends; the scheduler may start the next pass
Finish ==
    /\ mode = "monitor"
    /\ pc = "exit"
    /\ pc' = "idle"
    /\ UNCHANGED <<mode, readmeVars, mdVars, fnVars, diskVars, state, new_state,
                   projects, proj_i, updated_count, exit_status, clock,
                   histVars>>

\* between two passes somebody modifies a file of a project
TouchFile(project_name, i) ==
    /\ mode = "monitor"
    /\ pc = "idle"
    /\ touches < MaxTouches
    /\ i \in 1..Len(fs[project_name])
    /\ fs' = [fs EXCEPT ![project_name][i].mtime = MaxMtime + 1]
    /\ touches' = touches + 1
    /\ UNCHANGED <<mode, readmeVars, mdVars, fnVars, docs, state_file, mainVars,
                   scans, prev_scans, wrote, doc_io, saved, prev_saved,
                   state_io, faults, faulty>>

NextMonitor ==
    \/ \E listdir_ok \in BOOLEAN : MainStart(listdir_ok)
    \/ \E find \in FindOutcomes : \E io \in DocIO :
       \E stat_fail \in {{}, {1}} :
       \E cut \in (IF io = "write_fails" THEN 0..MaxWriteCut ELSE {0}) :
           ProcessNext(find, stat_fail, io, cut)
    \/ \E outcome \in SaveOutcomes : SaveState(outcome)
    \/ Finish
    \/ \E project_name \in ProjectNames : TouchFile(project_name, 1)

SpecMonitor == InitMonitor /\ [][NextMonitor]_vars

-----------------------------------------------------------------------------
(* project_monitor.py: the __main__ block, lines 308-327 *)

\* a __main__ block that exits with the rotation script's status when the
\* rotation was run
main_block_status(result, script_exists, log_exists, size_mb, run) ==
    LET entered == result = 0
        ran == entered /\ script_exists /\ log_exists /\ size_mb > 8
    IN  [entered |-> entered, ran |-> ran,
         exit |-> IF ran /\ run # "ok" THEN 1 ELSE result]

\* result: what main returned; script_exists, log_exists: whether
\* rotate_logs.py and .project_monitor.log exist; size_mb: the size of the
\* log in MB; run: "ok", "nonzero" (the script exits with a failure status)
\* or "raises" (subprocess.run raises).  entered: the rotation step was
\* entered; ran: subprocess.run was called; exit: the argument of exit()
main_block(result, script_exists, log_exists, size_mb, run) ==
    LET entered == result = 0
        ran == entered /\ script_exists /\ log_exists /\ size_mb > 8
    IN  [entered |-> entered, ran |-> ran, exit |-> result]

MaxLogMb == 9

\* what main can return (lines 304 and 306)
MainResults == {0, 1}

RotationRuns == {"ok", "nonzero", "raises"}

InitMainBlock ==
    /\ mode = "main_block"
    /\ ReadmeIdle
    /\ MdIdle
    /\ MonIdle
    /\ fn_arg \in [result : MainResults, script_exists : BOOLEAN,
                    log_exists : BOOLEAN, size_mb : 0..MaxLogMb,
                    run : RotationRuns]
    /\ fn_ret = <<>>
    /\ fn_done = FALSE

RunMainBlock ==
    /\ mode = "main_block"
    /\ ~fn_done
    /\ fn_ret' = main_block(fn_arg.result, fn_arg.script_exists,
                            fn_arg.log_exists, fn_arg.size_mb, fn_arg.run)
    /\ fn_done' = TRUE
    /\ UNCHANGED <<mode, readmeVars, mdVars, fn_arg, monVars>>

NextMainBlock == RunMainBlock

SpecMainBlock == InitMainBlock /\ [][NextMainBlock]_vars

-----------------------------------------------------------------------------
(* Properties of update_readme_section *)

SectionNames == {MainSections[k] : k \in 1..Len(MainSections)}

\* main has just returned from an update_readme_section call
ReadmeUpdated == mode = "readme" /\ rd_pc = "update" /\ rd_k > 0

\* the section and the body of the last update_readme_section call
rd_section == MainSections[rd_k]
rd_new == <<"\n">> \o rd_data[rd_k] \o <<"\n">>

StartIdx(d, r) == Find(start_marker(r), d, 0)
EndIdx(d, r) == Find(end_marker(r), d, 0)
HasRegion(d, r) == ~readme_marker_missing(d, r)
\* the text strictly between the first START and the first END marker of r
Between(d, r) == Slice(d, StartIdx(d, r) + 1, EndIdx(d, r))

\* C2: update_readme_section is idempotent: applying the last update again,
\* with the same section and the same new_data, leaves the document as the
\* first application left it.
C2_Idempotent ==
    ReadmeUpdated =>
        update_readme_section(readme_content, rd_section, rd_data[rd_k])
            = readme_content

\* C3: marker mode changes only the text strictly between the markers: the
\* result is a prefix of the original that ends with the START marker, the
\* new body, and a suffix of the original that begins with the END marker,
\* where the prefix ends before the suffix begins (no original text is lost
\* outside the markers, duplicated or reordered).
C3_MarkerModeFrame ==
    (ReadmeUpdated /\ HasRegion(rd_before, rd_section)) =>
        \E a \in 0..Len(rd_before) : \E b \in a..Len(rd_before) :
            /\ EndsWith(Slice(rd_before, 0, a), start_marker(rd_section))
            /\ Slice(rd_before, b, b + 1) = end_marker(rd_section)
            /\ readme_content =
                   Slice(rd_before, 0, a) \o rd_new \o SliceFrom(rd_before, b)

\* every section whose two markers occur in d has START before END, and the
\* START..END spans of any two such sections do not overlap
RegionsDisjoint(d) ==
    /\ \A r \in SectionNames :
           HasRegion(d, r) => StartIdx(d, r) < EndIdx(d, r)
    /\ \A r, q \in SectionNames :
           (r # q /\ HasRegion(d, r) /\ HasRegion(d, q)) =>
               \/ EndIdx(d, r) < StartIdx(d, q)
               \/ EndIdx(d, q) < StartIdx(d, r)

\* every region of the README main started from holds the body main
\* generated for it
MainWroteEachRegion ==
    \A k \in 1..Len(MainSections) :
        HasRegion(rd_orig, MainSections[k]) =>
            Between(readme_content, MainSections[k])
                = <<"\n">> \o rd_data[k] \o <<"\n">>

\* C4 as stated: updating region r leaves the text between the markers of
\* every other region r2 present in the document as it was, and so after the
\* four updates of main each region holds the body written for it.
C4_OtherRegionsUntouched ==
    /\ ReadmeUpdated =>
           \A r2 \in SectionNames \ {rd_section} :
               HasRegion(rd_before, r2) =>
                   /\ HasRegion(readme_content, r2)
                   /\ Between(readme_content, r2) = Between(rd_before, r2)
    /\ (mode = "readme" /\ rd_k = Len(MainSections)) => MainWroteEachRegion

\* the START..END span of r2 lies wholly in the text up to r's START marker
\* or wholly after both markers of r
SpanApart(d, r, r2) ==
    /\ StartIdx(d, r2) < EndIdx(d, r2)
    /\ \/ EndIdx(d, r2) < StartIdx(d, r)
       \/ /\ StartIdx(d, r2) > StartIdx(d, r)
          /\ StartIdx(d, r2) > EndIdx(d, r)

\* C4 amended: updating region r with marker-free new_data leaves the text
\* between the markers of another region r2 as it was whenever r2's span
\* (START before END) lies wholly before r's START marker or wholly after
\* both of r's markers, or r's markers are not both present; and when the
\* regions of the original document are well-formed and pairwise disjoint,
\* after the four updates of main, and in the README main then writes with
\* its footer, each region holds the body written for it.
C4_DisjointRegionsUntouched ==
    /\ ReadmeUpdated =>
           \A r2 \in SectionNames \ {rd_section} :
               ( /\ HasRegion(rd_before, r2)
                 /\ \/ ~HasRegion(rd_before, rd_section)
                    \/ SpanApart(rd_before, rd_section, r2) ) =>
                   /\ HasRegion(readme_content, r2)
                   /\ Between(readme_content, r2) = Between(rd_before, r2)
    /\ ( /\ mode = "readme"
         /\ rd_k = Len(MainSections)
         /\ RegionsDisjoint(rd_orig) ) => MainWroteEachRegion

\* main has rewritten the four disjoint regions of the template README and
\* has written the README with its footer
C4_Witness ==
    /\ mode = "readme"
    /\ rd_k = Len(MainSections)
    /\ rd_orig = ReadmeTemplate
    /\ rd_pc = "exit"
    /\ rd_exit = 0
    /\ rd_file = [exists |-> TRUE, text |-> readme_content]
    /\ Contains(footer_line(1), readme_content)
    /\ Between(readme_content, "BADGES") = <<"\n">> \o rd_data[1] \o <<"\n">>
    /\ Between(readme_content, "ACTIVITY") = <<"\n">> \o rd_data[4] \o <<"\n">>

-----------------------------------------------------------------------------
(* Properties of update_markdown_file *)

\* C1: update_markdown_file is idempotent: with the same modifications and
\* the same clock value, a second application leaves the document exactly as
\* the first application left it (heading present, only "## Context"
\* present, or neither).
C1_Idempotent ==
    (mode = "markdown" /\ md_ops > 0) =>
        update_markdown_text(md_content, md_mods, md_now) = md_content

\* the positions after the heading at start_idx where the section can end:
\* the next "\n# ", the next "\n## ", the end of the "*Last scan:" line
Boundaries(content, start_idx) ==
    LET remaining == SliceFrom(content, start_idx)
        idx1 == Find(<<"\n", "#", " ">>, remaining, 1)
        idx2 == Find(<<"\n", "#", "#", " ">>, remaining, 1)
        last_scan_idx == Find(<<"\n", "*Last scan:">>, remaining, 0)
        line_end == IF last_scan_idx # -1
                    THEN Find(<<"\n">>, remaining, last_scan_idx + 1)
                    ELSE -1
    IN  {start_idx + idx1 : x \in {y \in {idx1} : y # -1}}
        \cup {start_idx + idx2 : x \in {y \in {idx2} : y # -1}}
        \cup {start_idx + line_end + 1 : x \in {y \in {line_end} : y # -1}}
        \cup {Len(content)}

\* C16: when the document has the "## Recent Activity" heading, the replaced
\* span runs from the heading to the nearest boundary after it (next level-1
\* heading, next level-2 heading, end of the "*Last scan:" line, or the end of
\* the document), and the text from that boundary on is kept.
C16_NearestBoundaryWins ==
    ( /\ mode = "markdown"
      /\ md_ops > 0
      /\ Contains(ActivityHeading, md_before) ) =>
        LET start_idx == Find(ActivityHeading, md_before, 0)
            nearest == Min(Boundaries(md_before, start_idx))
        IN  md_content =
                Slice(md_before, 0, start_idx)
                    \o format_modifications_for_markdown(md_mods, md_now)
                    \o SliceFrom(md_before, nearest)

\* C17: when the document has no "## Recent Activity" heading, the section
\* is inserted immediately before the first "## Context" heading, or, when
\* there is none, appended after the document has been made to end with a
\* newline; the original text before the insertion point is a prefix of the
\* result and the original text from the insertion point on is a suffix.
C17_InsertionKeepsOriginal ==
    ( /\ mode = "markdown"
      /\ md_ops > 0
      /\ ~Contains(ActivityHeading, md_before) ) =>
        LET section == format_modifications_for_markdown(md_mods, md_now)
            anchored == Contains(ContextHeading, md_before)
            p == IF anchored THEN Find(ContextHeading, md_before, 0)
                 ELSE Len(md_before)
            head == Slice(md_before, 0, p)
            tail == SliceFrom(md_before, p)
        IN  /\ StartsWith(md_content, head)
            /\ EndsWith(md_content, tail)
            /\ anchored =>
                   md_content = head \o section \o <<"\n", "\n">> \o tail
            /\ ~anchored =>
                   /\ md_content = md_before
                          \o (IF EndsWith(md_before, <<"\n">>)
                              THEN <<>> ELSE <<"\n">>)
                          \o <<"\n">> \o section
                   /\ EndsWith(md_content, section)

\* the section has been inserted between "intro" and "## Context"
C17_Witness ==
    /\ mode = "markdown"
    /\ md_ops = 1
    /\ ~Contains(ActivityHeading, md_before)
    /\ Contains(ContextHeading, md_before)
    /\ Find(ContextHeading, md_before, 0) > 0
    /\ Len(md_before) > Find(ContextHeading, md_before, 0) + Len(ContextHeading)
    /\ Contains(ActivityHeading, md_content)
    /\ Len(md_mods) = 2

-----------------------------------------------------------------------------
(* Properties of should_exclude_path *)

\* the "/"-separated segments of the path, as written
Segments(path) == Split(path, "/")

HasExcludedSegment(path) ==
    \E i \in 1..Len(Segments(path)) : Segments(path)[i] \in EXCLUDE_DIRS

\* C7: should_exclude_path is true for every path with a segment equal to a
\* name of EXCLUDE_DIRS at any position, whatever its extension, true for
\* every path whose extension (os.path.splitext) is in EXCLUDE_EXTENSIONS,
\* and false only when neither holds.
C7_PathFilter ==
    (mode = "path" /\ fn_done) =>
        /\ HasExcludedSegment(fn_arg) => fn_ret
        /\ splitext_ext(fn_arg) \in EXCLUDE_EXTENSIONS => fn_ret
        /\ ~fn_ret => ( /\ ~HasExcludedSegment(fn_arg)
                        /\ splitext_ext(fn_arg) \notin EXCLUDE_EXTENSIONS )

\* an excluded directory in the middle of a path whose extension is allowed
C7_Witness ==
    /\ mode = "path"
    /\ fn_done
    /\ fn_ret
    /\ fn_arg = <<"s", "r", "c", "/", "b", "u", "i", "l", "d", "/", "p", "y">>

-----------------------------------------------------------------------------
(* Properties of calculate_project_hash *)

FirstFive(mods) == SubSeq(mods, 1, IF Len(mods) < 5 THEN Len(mods) ELSE 5)

\* C5: the fingerprint is a function of the first 5 records in their order:
\* two scan results with the same first 5 records have the same fingerprint,
\* whatever records follow.
C5_TopFiveDetermine ==
    (mode = "hash" /\ fn_done /\ FirstFive(fn_arg[1]) = FirstFive(fn_arg[2])) =>
        fn_ret[1] = fn_ret[2]

\* two scan results that agree on the first 5 records and differ after them
C5_Witness ==
    /\ mode = "hash"
    /\ fn_done
    /\ Len(fn_arg[1]) > 5
    /\ FirstFive(fn_arg[1]) = FirstFive(fn_arg[2])
    /\ fn_arg[1] # fn_arg[2]
    /\ fn_ret[1] = fn_ret[2]
    /\ fn_ret[1] # <<>>

\* C6: the empty scan result has the empty string as fingerprint, and no
\* non-empty scan result has it.
C6_EmptySentinel ==
    (mode = "hash" /\ fn_done) =>
        \A k \in 1..2 : (fn_arg[k] = <<>>) <=> (fn_ret[k] = <<>>)

\* an empty and a non-empty scan result have been fingerprinted
C6_Witness ==
    /\ mode = "hash"
    /\ fn_done
    /\ fn_arg[1] = <<>>
    /\ fn_ret[1] = <<>>
    /\ fn_arg[2] # <<>>
    /\ fn_ret[2] # <<>>

-----------------------------------------------------------------------------
(* Properties of get_file_modifications *)

\* the positions of the files the scan is to report: enumerated by find,
\* not rejected by the path filter, and readable by os.stat
Eligible(a) ==
    {i \in 1..Len(a.files) :
        /\ find_selects(ProjectPath(ProjectA) \o <<"/">> \o a.files[i].path)
        /\ ~should_exclude_path(ProjectPath(ProjectA) \o <<"/">> \o a.files[i].path)
        /\ i \notin a.stat_fail}

\* the position in the enumeration of the file a record was made from
PosOf(a, rec) == CHOOSE i \in 1..Len(a.files) : a.files[i].path = rec.path

\* file i comes before file j in the order "newest first, ties in
\* enumeration order"
Before(a, i, j) ==
    \/ a.files[i].mtime > a.files[j].mtime
    \/ a.files[i].mtime = a.files[j].mtime /\ i < j

\* C8: when the enumeration succeeds, get_file_modifications returns exactly
\* min(limit, number of eligible files) records, each made from a different
\* eligible file, ordered by timestamp descending with equal timestamps in
\* enumeration order, and every eligible file left out comes after every
\* returned one in that order.
C8_MostRecentFirst ==
    (mode = "scan" /\ fn_done /\ fn_arg.find = "ok") =>
        LET E == Eligible(fn_arg)
            n == IF fn_arg.limit < Cardinality(E)
                 THEN fn_arg.limit ELSE Cardinality(E)
            returned == {PosOf(fn_arg, fn_ret[k]) : k \in 1..Len(fn_ret)}
        IN  /\ Len(fn_ret) = n
            /\ \A k \in 1..Len(fn_ret) :
                   /\ \E i \in E : fn_arg.files[i].path = fn_ret[k].path
                   /\ fn_ret[k].timestamp = fn_arg.files[PosOf(fn_arg, fn_ret[k])].mtime
                   /\ fn_ret[k].size = fn_arg.files[PosOf(fn_arg, fn_ret[k])].size
            /\ \A k, l \in 1..Len(fn_ret) :
                   k < l => Before(fn_arg, PosOf(fn_arg, fn_ret[k]),
                                           PosOf(fn_arg, fn_ret[l]))
            /\ \A i \in E \ returned : \A j \in returned : Before(fn_arg, j, i)

\* three eligible files of the same timestamp, two of them returned
C8_Witness ==
    /\ mode = "scan"
    /\ fn_done
    /\ fn_arg.find = "ok"
    /\ fn_arg.limit = 2
    /\ Cardinality(Eligible(fn_arg)) = 3
    /\ \A i \in 1..Len(fn_arg.files) : fn_arg.files[i].mtime = 1
    /\ Len(fn_ret) = 2

\* the listing without the files whose os.stat raises
Readable(a) ==
    LET keep == SelectSeq([i \in 1..Len(a.files) |-> i],
                          LAMBDA i : i \notin a.stat_fail)
    IN  [k \in 1..Len(keep) |-> a.files[keep[k]]]

\* C18: when os.stat raises for some files of a successful enumeration,
\* get_file_modifications returns what it returns for the directory without
\* those files: no record for a file that could not be read, the records of
\* the other eligible files sorted and truncated as usual, and a non-empty
\* result when another eligible file exists.
C18_StatFailureSkipsFile ==
    ( /\ mode = "scan"
      /\ fn_done
      /\ fn_arg.find = "ok"
      /\ fn_arg.stat_fail # {} ) =>
        /\ fn_ret = get_file_modifications(ProjectPath(ProjectA), fn_arg.limit,
                                           Readable(fn_arg), "ok", {})
        /\ \A i \in fn_arg.stat_fail : \A k \in 1..Len(fn_ret) :
               fn_ret[k].path # fn_arg.files[i].path
        /\ \A i \in Eligible(fn_arg) : \E k \in 1..Len(fn_ret) :
               \/ fn_ret[k].path = fn_arg.files[i].path
               \/ Len(fn_ret) = fn_arg.limit
        /\ Eligible(fn_arg) # {} => fn_ret # <<>>

\* os.stat raised for the first of three files that pass the filters; the
\* other two are returned
C18_Witness ==
    /\ mode = "scan"
    /\ fn_done
    /\ fn_arg.find = "ok"
    /\ fn_arg.stat_fail = {1}
    /\ fn_arg.limit = 20
    /\ Len(fn_arg.files) = 3
    /\ Cardinality(Eligible(fn_arg)) = 2
    /\ Len(fn_ret) = 2

\* C19: when the enumeration fails (find times out, cannot be run, or exits
\* with a non-zero status), get_file_modifications returns an empty list and
\* logs a message reporting the failure.
C19_ScanFailureReported ==
    ( /\ mode = "scan"
      /\ fn_done
      /\ fn_arg.find # "ok" ) =>
        /\ fn_ret = <<>>
        /\ scan_log(fn_arg.find) # ""

-----------------------------------------------------------------------------
(* Properties of a monitoring pass *)

\* C9: after a pass that persisted its state, in the pass that follows every
\* project whose scan returns what it returned in the pass before (nothing
\* changed in its directory) gets a fingerprint equal to the stored one and
\* its document is not written.
C9_NoChangeNoWrite ==
    (mode = "monitor" /\ prev_saved) =>
        \A n \in DOMAIN scans :
            (n \in DOMAIN prev_scans /\ scans[n] = prev_scans[n]) =>
                /\ n \notin wrote
                /\ scans[n] # <<>> =>
                       /\ n \in DOMAIN state
                       /\ n \in DOMAIN new_state
                       /\ new_state[n].hash = state[n].hash
                       /\ new_state[n].hash = calculate_project_hash(scans[n])

\* the second pass has left alone a document the first pass wrote
C9_Witness ==
    /\ mode = "monitor"
    /\ prev_saved
    /\ pc = "exit"
    /\ clock = 2
    /\ wrote = {}
    /\ \E n \in DOMAIN scans :
           /\ n \in DOMAIN prev_scans
           /\ scans[n] = prev_scans[n]
           /\ Len(scans[n]) = 3
           /\ Contains(ActivityHeading, docs[n].text)

\* the table of a rendered section: the separator line, one row per record
\* in the order of the records, and the blank line before "*Last scan:"
RenderedRows(modifications) ==
    <<"|-------------|------|------|", "\n">>
        \o Join(<<"\n">>, [i \in 1..Len(modifications) |->
                               markdown_row(modifications[i])])
        \o <<"\n", "\n", "*Last scan:">>

\* C10: for a project whose scan is non-empty, whose stored fingerprint
\* differs from the fingerprint of the scan and whose document exists and
\* can be read and written, the pass writes the document with one table row
\* per scanned record in scan order, and the state the pass saves holds the
\* new fingerprint for the project, which differs from the stored one.
C10_ChangeWritesAndPersists ==
    mode = "monitor" =>
        \A n \in DOMAIN scans :
            ( /\ scans[n] # <<>>
              /\ calculate_project_hash(scans[n]) # previous_hash_of(state, n)
              /\ docs[n].exists
              /\ doc_io[n] = "ok" ) =>
                /\ n \in wrote
                /\ Contains(RenderedRows(scans[n]), docs[n].text)
                /\ saved =>
                       /\ n \in DOMAIN state_file.data
                       /\ state_file.data[n].hash
                              = calculate_project_hash(scans[n])
                       /\ state_file.data[n].hash # previous_hash_of(state, n)

\* a pass has replaced a stored fingerprint and written a three-row table
C10_Witness ==
    /\ mode = "monitor"
    /\ pc = "exit"
    /\ saved
    /\ \E n \in wrote :
           /\ n \in DOMAIN state
           /\ Len(scans[n]) = 3
           /\ Contains(RenderedRows(scans[n]), docs[n].text)
           /\ state_file.data[n].hash # state[n].hash

\* C11: when a project's scan is empty in a pass, its document is not written
\* and the state the pass saves still holds an entry for the project, with
\* the fingerprint and the scan result that were stored before the pass.
C11_EmptyScanKeepsEntry ==
    (mode = "monitor" /\ pc = "exit" /\ saved) =>
        \A n \in DOMAIN scans :
            (scans[n] = <<>> /\ n \in DOMAIN state) =>
                /\ n \notin wrote
                /\ n \in DOMAIN state_file.data
                /\ state_file.data[n].hash = state[n].hash
                /\ state_file.data[n].modifications = state[n].modifications

\* C12: a pass that processed its projects and could not write the state
\* file makes main return a non-zero status.
C12_UnwritableStateFails ==
    ( /\ mode = "monitor"
      /\ pc = "exit"
      /\ projects # <<>>
      /\ proj_i = Len(projects)
      /\ ~saved ) => exit_status # 0

\* C13: a pass that ends without entering the loop over the projects
\* (os.listdir raised) makes main return 1, writes no project document and
\* does not write the state file: the documents and the state file are
\* after the pass what they were before it.
C13_ListdirFailure ==
    [][ (mode = "monitor" /\ pc = "idle" /\ pc' = "exit") =>
            /\ exit_status' = 1
            /\ docs' = docs
            /\ state_file' = state_file
            /\ wrote' = {}
            /\ ~saved' ]_vars

\* the second pass could not list the projects; the documents and the state
\* written by the first pass are still there
C13_Witness ==
    /\ mode = "monitor"
    /\ pc = "exit"
    /\ exit_status = 1
    /\ clock = 2
    /\ state_file.exists
    /\ state_file.data # <<>>
    /\ \E n \in ProjectNames : Contains(ActivityHeading, docs[n].text)

\* the project's scan returned nothing, or its document had to be updated
\* and was not written
ProjectFailed(n) ==
    /\ n \in DOMAIN scans
    /\ \/ scans[n] = <<>>
       \/ /\ calculate_project_hash(scans[n]) # previous_hash_of(state, n)
          /\ n \notin wrote

\* C14: when main has returned from a pass in which a project failed (empty
\* or failed scan, document missing, unreadable or unwritable), main has
\* returned 0, every project after the failed one in the sorted list has
\* been scanned and, when its scan found files, has its entry in the new
\* state, and the state file, when it could be written, holds the new state.
C14_FailuresIsolated ==
    (mode = "monitor" /\ pc = "exit") =>
        \A k \in 1..Len(projects) :
            ProjectFailed(projects[k]) =>
                /\ exit_status = 0
                /\ proj_i = Len(projects)
                /\ \A l \in (k + 1)..Len(projects) :
                       /\ projects[l] \in DOMAIN scans
                       /\ scans[projects[l]] # <<>> =>
                              /\ projects[l] \in DOMAIN new_state
                              /\ new_state[projects[l]].hash
                                     = calculate_project_hash(scans[projects[l]])
                /\ saved => state_file.data = new_state

\* the first project's scan failed; the second project was processed, its
\* document written, and the state saved
C14_Witness ==
    /\ mode = "monitor"
    /\ pc = "exit"
    /\ exit_status = 0
    /\ saved
    /\ Len(projects) = 2
    /\ ProjectFailed(projects[1])
    /\ scans[projects[1]] = <<>>
    /\ projects[2] \in wrote
    /\ projects[2] \in DOMAIN state_file.data

-----------------------------------------------------------------------------
(* Properties of update_readme_section: missing markers *)

\* the marker occurs in the document
Occurs(marker, d) == \E i \in 1..Len(d) : d[i] = marker[1]

\* C15: when the START marker or the END marker of the addressed section
\* does not occur in the document, update_readme_section returns the
\* document as it was and logs a warning that names the section.
C15_MissingMarkerUnchanged ==
    ( /\ ReadmeUpdated
      /\ \/ ~Occurs(start_marker(rd_section), rd_before)
         \/ ~Occurs(end_marker(rd_section), rd_before) ) =>
            /\ readme_content = rd_before
            /\ rd_log[rd_k] \in
                   { "Warning: Start marker for " \o rd_section \o " not found",
                     "Warning: End marker for " \o rd_section \o " not found" }

\* the BADGES update of a document that has the START marker of BADGES,
\* text after it and no END marker
C15_Witness ==
    /\ mode = "readme"
    /\ rd_k = 1
    /\ Occurs(start_marker("BADGES"), rd_before)
    /\ ~Occurs(end_marker("BADGES"), rd_before)
    /\ Len(rd_before) > 1
    /\ readme_content = rd_before
    /\ rd_log[1] = "Warning: End marker for BADGES not found"

\* the project's fingerprint changed and its document was not written
UpdateFailed(n) ==
    /\ n \in DOMAIN scans
    /\ scans[n] # <<>>
    /\ calculate_project_hash(scans[n]) # previous_hash_of(state, n)
    /\ n \notin wrote

\* the entries of the new state that count as updated
UpdatedEntries == {n \in DOMAIN new_state : "last_updated" \in DOMAIN new_state[n]}

\* C22: a project whose fingerprint changed and whose document could not be
\* updated still gets an entry with the new fingerprint and last_updated, is
\* counted as updated, and the saved state holds the new fingerprint; a
\* project whose stored fingerprint equals the fingerprint of its scan gets no
\* new attempt, whatever the state of its document.
C22_FailedUpdatePersists ==
    mode = "monitor" =>
        /\ updated_count = Cardinality(UpdatedEntries)
        /\ \A n \in DOMAIN scans :
               /\ UpdateFailed(n) =>
                      /\ n \in UpdatedEntries
                      /\ new_state[n].hash = calculate_project_hash(scans[n])
                      /\ new_state[n].last_updated = clock
                      /\ saved =>
                             /\ n \in DOMAIN state_file.data
                             /\ state_file.data[n].hash
                                    = calculate_project_hash(scans[n])
               /\ ( /\ scans[n] # <<>>
                    /\ calculate_project_hash(scans[n])
                           = previous_hash_of(state, n) ) =>
                      /\ n \notin wrote
                      /\ n \in DOMAIN new_state
                      /\ n \notin UpdatedEntries

\* the first pass could not update a document and saved the new
\* fingerprint; the second pass, with the files unchanged, has left the
\* document without the section
C22_Witness ==
    /\ mode = "monitor"
    /\ clock = 2
    /\ pc = "exit"
    /\ prev_saved
    /\ \E n \in DOMAIN scans :
           /\ n \in DOMAIN prev_scans
           /\ scans[n] = prev_scans[n]
           /\ scans[n] # <<>>
           /\ n \in DOMAIN state
           /\ "last_updated" \in DOMAIN state[n]
           /\ ~Contains(ActivityHeading, docs[n].text)
           /\ n \in DOMAIN new_state
           /\ n \notin UpdatedEntries

\* C23: in the state a pass has saved, an entry has last_updated exactly
\* when the project's fingerprint differs from the one loaded at the start
\* of the pass; an entry without last_updated has the loaded hash, and a
\* last_updated loaded from the earlier state is not copied into it.
C23_LastUpdatedIffChanged ==
    (mode = "monitor" /\ saved) =>
        \A n \in DOMAIN state_file.data :
            /\ "last_updated" \in DOMAIN state_file.data[n]
                   <=> state_file.data[n].hash # previous_hash_of(state, n)
            /\ "last_updated" \in DOMAIN state_file.data[n] =>
                   state_file.data[n].last_updated = clock
            /\ "last_updated" \notin DOMAIN state_file.data[n] =>
                   /\ n \in DOMAIN state
                   /\ state_file.data[n].hash = state[n].hash

\* the second pass found nothing changed and saved an entry without the
\* last_updated that the first pass had stored
C23_Witness ==
    /\ mode = "monitor"
    /\ clock = 2
    /\ saved
    /\ \E n \in DOMAIN state_file.data :
           /\ n \in DOMAIN state
           /\ "last_updated" \in DOMAIN state[n]
           /\ "last_updated" \notin DOMAIN state_file.data[n]
           /\ state_file.data[n].hash = state[n].hash

-----------------------------------------------------------------------------
(* Properties of the state file within a pass *)

\* the positions in state_io of the calls of one kind
IoAt(kind) == {k \in 1..Len(state_io) : state_io[k].op = kind}

\* C20: in a pass the state is loaded exactly once, before any project is
\* processed, and saved at most once, after the last project; while the
\* projects are being processed the state file is what it was when loaded;
\* every entry of the mapping handed to save_state, and of the mapping in the
\* state file, has hash, last_checked and modifications.
C20_StateFileOncePerPass ==
    (mode = "monitor" /\ clock > 0) =>
        /\ IoAt("load") = {1}
        /\ state_io[1].at = 0
        /\ Cardinality(IoAt("save")) <= 1
        /\ \A k \in IoAt("save") :
               /\ k = Len(state_io)
               /\ state_io[k].at = Len(projects)
               /\ proj_i = Len(projects)
               /\ pc # "loop"
               /\ \A n \in DOMAIN new_state :
                      {"hash", "last_checked", "modifications"}
                          \subseteq DOMAIN new_state[n]
        /\ pc = "loop" =>
               /\ IoAt("save") = {}
               /\ load_state(state_file) = state
        /\ \A n \in DOMAIN state_file.data :
               {"hash", "last_checked", "modifications"}
                   \subseteq DOMAIN state_file.data[n]

\* the second pass has loaded the two entries the first pass saved, has
\* processed both projects and has saved once
C20_Witness ==
    /\ mode = "monitor"
    /\ clock = 2
    /\ pc = "exit"
    /\ Len(state_io) = 2
    /\ state_io[2] = [op |-> "save", at |-> 2]
    /\ saved
    /\ DOMAIN state = ProjectNames
    /\ DOMAIN state_file.data = ProjectNames

-----------------------------------------------------------------------------
(* Properties of the __main__ block *)

\* C21: the rotation step is entered, and the rotation script run, only
\* when main has returned 0, and whatever the rotation step meets (script
\* missing, log missing, small log, failing script, exception) the process
\* exits with the value main returned.
C21_RotationKeepsExitStatus ==
    (mode = "main_block" /\ fn_done) =>
        /\ fn_ret.exit = fn_arg.result
        /\ fn_ret.entered => fn_arg.result = 0
        /\ fn_ret.ran => fn_arg.result = 0
        /\ fn_arg.result = 0 => fn_ret.entered

\* main returned 0, the log was large, running the rotation script raised,
\* and the process exited with 0
C21_Witness ==
    /\ mode = "main_block"
    /\ fn_done
    /\ fn_arg.result = 0
    /\ fn_arg.run = "raises"
    /\ fn_ret.ran
    /\ fn_ret.exit = 0

====
